---------------------------- MODULE Spec2Model ----------------------------
(***************************************************************************)
(* Model of occi_os_api/nova_glue/vm.py: the adapter between OCCI compute  *)
(* resources and the nova compute / volume APIs.                           *)
(*                                                                         *)
(* The nova APIs are external.  Every call the adapter makes to them       *)
(* either succeeds or raises one of the provider error kinds; which one is *)
(* an input of the operation (a "fail plan": the index of the call that    *)
(* raises, and the kind raised).  The adapter's own code decides which     *)
(* calls are made, in which order, and what reaches the caller.            *)
(***************************************************************************)
EXTENDS Integers, Sequences, FiniteSets, TLC

VARIABLES
    instance,   \* the provider's record of the one instance (or Absent)
    request,    \* the operation being served / last served, with its inputs
    calls,      \* provider calls made by the last step of the adapter
    outcome,    \* what the last operation gave its caller
    pc,         \* position of resize_vm: "idle" | "poll" | "confirm"
    i,          \* resize_vm's local i
    ready,      \* resize_vm's local ready
    state,      \* resize_vm's local state (vm_state seen by the last poll)
    firstReady  \* history: value of i when ready was first set (0: not yet)

vars == <<instance, request, calls, outcome, pc, i, ready, state, firstReady>>

----------------------------------------------------------------------------
(* Bounds *)

\* The poll counter i is unbounded in the code; it saturates here.
MaxPolls == 17
\* Longest mixin list of a create request.
MaxMixins == 3

\* resize_vm: "while not ready or i < 15"
PollMin == 15

----------------------------------------------------------------------------
(* The provider *)

UIDs == {"vm1"}

\* nova.compute.vm_states (those the adapter reads) and task_states
VmStates == {"active", "building", "paused", "suspended", "stopped",
             "rescued", "error", "deleted", "resized"}
TaskStates == {"none", "image_snapshot"}
\* task_states.IMAGE_SNAPSHOT
IMAGE_SNAPSHOT == "image_snapshot"

Absent == [exists |-> FALSE, vm_state |-> "deleted", task_state |-> "none"]
InstanceStates ==
    {Absent} \cup [exists : {TRUE}, vm_state : VmStates, task_state : TaskStates]

\* Error kinds the nova APIs raise (nova.exception).
ProviderErrors == {"not_found", "invalid_state", "invalid_device_path",
                   "image_not_found", "flavor_not_found", "invalid_volume",
                   "volume_unattached", "password_set_failed"}

\* "except exception.NotFound" also catches NotFound's subclasses.
NotFoundFamily == {"not_found", "image_not_found", "flavor_not_found"}

\* What each call to the nova APIs can raise.
Raises(fn) ==
    CASE fn = "COMPUTE_API.get" -> {"not_found"}
      [] fn = "COMPUTE_API.get_all" -> {}
      [] fn = "instance_types.lookup" -> {"flavor_not_found"}
      [] fn = "COMPUTE_API.create" -> {"image_not_found", "not_found"}
      [] fn = "COMPUTE_API.rebuild" -> {"invalid_state", "image_not_found"}
      [] fn = "COMPUTE_API.resize" -> {"invalid_state", "flavor_not_found"}
      [] fn = "COMPUTE_API.confirm_resize" -> {"invalid_state"}
      [] fn = "COMPUTE_API.delete" -> {"invalid_state"}
      [] fn = "COMPUTE_API.pause" -> {"invalid_state"}
      [] fn = "COMPUTE_API.resume" -> {"invalid_state"}
      [] fn = "COMPUTE_API.suspend" -> {"invalid_state"}
      [] fn = "COMPUTE_API.snapshot" -> {"invalid_state"}
      [] fn = "COMPUTE_API.reboot" -> {"invalid_state"}
      [] fn = "COMPUTE_API.set_admin_password" ->
            {"password_set_failed", "invalid_state"}
      [] fn = "COMPUTE_API.get_vnc_console" -> {"not_found", "invalid_state"}
      [] fn = "VOLUME_API.get" -> {"not_found"}
      [] fn = "COMPUTE_API.attach_volume" ->
            {"invalid_device_path", "invalid_volume", "invalid_state"}
      [] fn = "COMPUTE_API.detach_volume" ->
            {"invalid_volume", "volume_unattached", "not_found"}

NoFail == [at |-> 0, err |-> "ok"]
\* The fail plans of an operation whose provider calls are fns, in order:
\* no call raises, or the k-th is the first that does.
FailPlans(fns) ==
    {NoFail} \cup UNION {[at : {k}, err : Raises(fns[k])] : k \in DOMAIN fns}
\* Result of the j-th provider call under a fail plan.
Res(fail, j) == IF fail.at = j THEN fail.err ELSE "ok"

\* A fetch of an absent instance raises not-found.
FetchPlans(fns, inst) ==
    IF inst.exists THEN FailPlans(<<"COMPUTE_API.get">> \o fns)
    ELSE {[at |-> 1, err |-> "not_found"]}

----------------------------------------------------------------------------
(* Values handed to the caller *)

None == "None"

Ok(v) == [kind |-> "ok", status |-> 0, msg |-> "", value |-> v]
\* AttributeError (the OCCI layer's validation error)
AttributeError(m) ==
    [kind |-> "AttributeError", status |-> 0, msg |-> m, value |-> None]
\* occi.exceptions.HTTPError(code, msg)
HTTPError(code, m) ==
    [kind |-> "HTTPError", status |-> code, msg |-> m, value |-> None]
\* A nova exception no handler caught: it reaches the caller as it is.  msg
\* is str(error), which is the kind's name here.
ProviderError(e) ==
    [kind |-> "ProviderError", status |-> 0, msg |-> e, value |-> None]
KeyError(attr) ==
    [kind |-> "KeyError", status |-> 0, msg |-> attr, value |-> None]
Pending == [kind |-> "pending", status |-> 0, msg |-> "", value |-> None]

Call(fn, arg) == [fn |-> fn, arg |-> arg]
Done(cs, out) == [calls |-> cs, out |-> out]

Range(s) == {s[j] : j \in DOMAIN s}
CallsOf(cs, fn) == {j \in DOMAIN cs : cs[j].fn = fn}

----------------------------------------------------------------------------
(* get_vm, get_vms *)

\* get_vm's result given the result r of COMPUTE_API.get
get_vm(uid, inst, r) ==
    IF r = "ok" THEN Ok([uid |-> uid, vm_state |-> inst.vm_state,
                         task_state |-> inst.task_state])
    ELSE IF r \in NotFoundFamily THEN HTTPError(404, "VM not found!")
    ELSE ProviderError(r)

GetCall(uid) == Call("COMPUTE_API.get", uid)

get_vms(inst, fail) ==
    LET r == Res(fail, 1) IN
    Done(<<Call("COMPUTE_API.get_all", "deleted=False")>>,
         IF r = "ok" THEN Ok(IF inst.exists /\ inst.vm_state # "deleted"
                             THEN <<"vm1">> ELSE <<>>)
         ELSE ProviderError(r))

----------------------------------------------------------------------------
(* Operations that fetch the instance and make one more call *)

\* FLAGS.reclaim_instance_interval: a number, or unset
Intervals == [none : {FALSE}, n : {-1, 0, 1, 2}] \cup {[none |-> TRUE, n |-> 0]}
\* Python truth value of the flag
Truthy(v) == ~v.none /\ v.n # 0

delete_vm(uid, inst, interval, fail) ==
    LET g == get_vm(uid, inst, Res(fail, 1))
        r == Res(fail, 2)
        c == IF Truthy(interval) THEN Call("COMPUTE_API.soft_delete", uid)
             ELSE Call("COMPUTE_API.delete", uid)
    IN  IF g.kind # "ok" THEN Done(<<GetCall(uid)>>, g)
        ELSE Done(<<GetCall(uid), c>>,
                  IF r = "ok" THEN Ok(None) ELSE ProviderError(r))

suspend_vm(uid, inst, fail) ==
    LET g == get_vm(uid, inst, Res(fail, 1))
        r == Res(fail, 2)
    IN  IF g.kind # "ok" THEN Done(<<GetCall(uid)>>, g)
        ELSE Done(<<GetCall(uid), Call("COMPUTE_API.pause", uid)>>,
                  IF r = "ok" THEN Ok(None) ELSE HTTPError(500, r))

start_vm(uid, inst, fail) ==
    LET g == get_vm(uid, inst, Res(fail, 1))
        r == Res(fail, 2)
    IN  IF g.kind # "ok" THEN Done(<<GetCall(uid)>>, g)
        ELSE Done(<<GetCall(uid), Call("COMPUTE_API.resume", uid)>>,
                  IF r = "ok" THEN Ok(None)
                  ELSE HTTPError(500, "Error while starting VM: " \o r))

stop_vm(uid, inst, fail) ==
    LET g == get_vm(uid, inst, Res(fail, 1))
        r == Res(fail, 2)
    IN  IF g.kind # "ok" THEN Done(<<GetCall(uid)>>, g)
        ELSE Done(<<GetCall(uid), Call("COMPUTE_API.suspend", uid)>>,
                  IF r = "ok" THEN Ok(None)
                  ELSE HTTPError(500, "Error while stopping VM: " \o r))

snapshot_vm(uid, inst, image_name, fail) ==
    LET g == get_vm(uid, inst, Res(fail, 1))
        r == Res(fail, 2)
    IN  IF g.kind # "ok" THEN Done(<<GetCall(uid)>>, g)
        ELSE Done(<<GetCall(uid), Call("COMPUTE_API.snapshot", image_name)>>,
                  IF r = "ok" THEN Ok(None)
                  ELSE IF r = "invalid_state"
                       THEN AttributeError("VM is not in an valid state.")
                  ELSE ProviderError(r))

rebuild_vm(uid, inst, image_href, fail) ==
    LET g == get_vm(uid, inst, Res(fail, 1))
        r == Res(fail, 2)
    IN  IF g.kind # "ok" THEN Done(<<GetCall(uid)>>, g)
        ELSE Done(<<GetCall(uid), Call("COMPUTE_API.rebuild", image_href)>>,
                  IF r = "ok" THEN Ok(None)
                  ELSE IF r = "invalid_state"
                       THEN AttributeError("VM is in an invalid state.")
                  ELSE IF r = "image_not_found"
                       THEN AttributeError("Cannot find image for rebuild")
                  ELSE ProviderError(r))

Methods == {"graceful", "warm", "cold", "bogus"}

\* same: whether the caller's string is the very object of the literal
\* 'cold' ("method is 'cold'" compares identities, and two equal strings
\* need not be one object).
restart_vm(uid, inst, method, same, fail) ==
    LET g == get_vm(uid, inst, Res(fail, 1))
        r == Res(fail, 2)
        reboot_type == IF method \in {"graceful", "warm"} THEN "SOFT"
                       ELSE IF method = "cold" /\ same THEN "HARD"
                       ELSE None
    IN  IF g.kind # "ok" THEN Done(<<GetCall(uid)>>, g)
        ELSE IF reboot_type = None
             THEN Done(<<GetCall(uid)>>, AttributeError("Unknown method."))
        ELSE Done(<<GetCall(uid), Call("COMPUTE_API.reboot", reboot_type)>>,
                  IF r = "ok" THEN Ok(None)
                  ELSE IF r = "invalid_state"
                       THEN HTTPError(406, "VM is in an invalid state.")
                  ELSE ProviderError(r))

set_password_for_vm(uid, inst, password, fail) ==
    LET g == get_vm(uid, inst, Res(fail, 1))
        r == Res(fail, 2)
    IN  IF g.kind # "ok" THEN Done(<<GetCall(uid)>>, g)
        ELSE Done(<<GetCall(uid),
                    Call("COMPUTE_API.set_admin_password", password)>>,
                  IF r = "ok" THEN Ok(None)
                  ELSE IF r = "password_set_failed" THEN Ok(None)
                  ELSE ProviderError(r))

\* vnc_enabled: FLAGS.vnc_enabled
get_vnc(uid, inst, vnc_enabled, fail) ==
    LET g == get_vm(uid, inst, Res(fail, 1))
        r == Res(fail, 2)
    IN  IF ~vnc_enabled THEN Done(<<>>, Ok(None))
        ELSE IF g.kind # "ok" THEN Done(<<GetCall(uid)>>, g)
        ELSE Done(<<GetCall(uid), Call("COMPUTE_API.get_vnc_console", "novnc")>>,
                  IF r = "ok" THEN Ok("console")
                  ELSE IF r = "not_found" THEN Ok(None)
                  ELSE ProviderError(r))

----------------------------------------------------------------------------
(* Volumes *)

attach_volume(instance_id, inst, volume_id, mount_point, fail) ==
    LET g  == get_vm(instance_id, inst, Res(fail, 1))
        r2 == Res(fail, 2)
        r3 == Res(fail, 3)
        handled(r) == IF r \in NotFoundFamily
                         THEN HTTPError(404, "Volume not found!")
                      ELSE IF r = "invalid_device_path"
                         THEN AttributeError("Invalid device path!")
                      ELSE ProviderError(r)
        vget == Call("VOLUME_API.get", volume_id)
    IN  IF g.kind # "ok" THEN Done(<<GetCall(instance_id)>>, g)
        ELSE IF r2 # "ok" THEN Done(<<GetCall(instance_id), vget>>, handled(r2))
        ELSE Done(<<GetCall(instance_id), vget,
                    Call("COMPUTE_API.attach_volume",
                         [volume_id |-> volume_id, mount_point |-> mount_point])>>,
                  IF r3 = "ok" THEN Ok(None) ELSE handled(r3))

detach_volume(volume_id, fail) ==
    LET r == Res(fail, 1) IN
    Done(<<Call("COMPUTE_API.detach_volume", volume_id)>>,
         IF r = "ok" THEN Ok(None)
         ELSE IF r = "invalid_volume" THEN AttributeError("Invalid volume!")
         ELSE IF r = "volume_unattached"
              THEN AttributeError("Volume is not attached!")
         ELSE ProviderError(r))

----------------------------------------------------------------------------
(* get_occi_state *)

\* The branch on vm_state with 'stopped' missing from the third list.
StateByVmStateNoStopped(vm_state) ==
    IF vm_state \in {"active"}
        THEN [state |-> "active", actions |-> <<"stop", "suspend", "restart">>]
    ELSE IF vm_state \in {"building"}
        THEN [state |-> "inactive", actions |-> <<>>]
    ELSE IF vm_state \in {"paused", "suspended"}
        THEN [state |-> "inactive", actions |-> <<"start">>]
    ELSE [state |-> "inactive", actions |-> <<>>]

\* state and actions after the if / elif chain on instance['vm_state']
StateByVmState(vm_state) ==
    IF vm_state \in {"active"}
        THEN [state |-> "active", actions |-> <<"stop", "suspend", "restart">>]
    ELSE IF vm_state \in {"building"}
        THEN [state |-> "inactive", actions |-> <<>>]
    ELSE IF vm_state \in {"paused", "suspended", "stopped"}
        THEN [state |-> "inactive", actions |-> <<"start">>]
    ELSE IF vm_state \in {"rescued", "error", "deleted"}
        THEN [state |-> "inactive", actions |-> <<>>]
    ELSE [state |-> "inactive", actions |-> <<>>]

\* "if instance['vm_state'] in [task_states.IMAGE_SNAPSHOT]": the field read
\* is vm_state; task_state is not read.
SnapshotOverride(inst_rec, base) ==
    IF inst_rec.vm_state \in {IMAGE_SNAPSHOT}
        THEN [state |-> "inactive", actions |-> <<>>]
    ELSE base

get_occi_state(uid, inst, fail) ==
    LET g == get_vm(uid, inst, Res(fail, 1)) IN
    IF g.kind # "ok" THEN Done(<<GetCall(uid)>>, g)
    ELSE Done(<<GetCall(uid)>>,
              Ok(SnapshotOverride(g.value, StateByVmState(g.value.vm_state))))

----------------------------------------------------------------------------
(* create_vm *)

HOSTNAME == "occi.compute.hostname"
KEY_NAME == "org.openstack.credentials.publickey.name"
KEY_DATA == "org.openstack.credentials.publickey.data"
AttrNames == {HOSTNAME, KEY_NAME, KEY_DATA}
AttrValue(a) == IF a = HOSTNAME THEN "web1"
                ELSE IF a = KEY_NAME THEN "mykey" ELSE "ssh-rsa AAAA"
\* entity.attributes: a dict from some of the attribute names to values
AttributeMaps == {[a \in S |-> AttrValue(a)] : S \in SUBSET AttrNames}

\* os_addon.SEC_GROUP
SEC_GROUP == "security_group"
Mixin(class, term, os_id, related) ==
    [class |-> class, term |-> term, os_id |-> os_id, related |-> related]
NoMixin == Mixin("None", "", "", {})
\* os_addon.OS_KEY_PAIR_EXT
OS_KEY_PAIR_EXT == Mixin("Mixin", "public_key", "", {})
MixinUniverse ==
    { Mixin("ResourceTemplate", "m1.small", "", {"resource_tpl"}),
      Mixin("ResourceTemplate", "m1.large", "", {"resource_tpl"}),
      Mixin("OsTemplate", "cirros", "image-1", {"os_tpl"}),
      Mixin("OsTemplate", "ubuntu", "image-2", {"os_tpl"}),
      OS_KEY_PAIR_EXT,
      Mixin("Mixin", "sg-web", "", {SEC_GROUP}),
      Mixin("Mixin", "sg-db", "", {SEC_GROUP}) }

SeqsUpTo(S, n) == UNION {[1..k -> S] : k \in 0..n}
Entities == [attributes : AttributeMaps, mixins : SeqsUpTo(MixinUniverse, MaxMixins)]

DefaultFlavor == "default-flavor"
\* what COMPUTE_API.create returns on success: (instances, reservation_id)
ProviderInstances == <<"inst-a", "inst-b">>

ScanInit == [resource_template |-> NoMixin, os_template |-> NoMixin,
             key_name |-> None, key_data |-> None, sg_names |-> <<>>,
             error |-> None]

\* One pass of the body of "for mixin in entity.mixins".  error names the
\* attribute whose lookup raised KeyError.
ScanStep(acc, mixin, attrs) ==
    LET a1 == IF mixin.class = "ResourceTemplate"
                 THEN [acc EXCEPT !.resource_template = mixin]
              ELSE IF mixin.class = "OsTemplate"
                 THEN [acc EXCEPT !.os_template = mixin]
              ELSE IF mixin = OS_KEY_PAIR_EXT
                 THEN IF KEY_NAME \notin DOMAIN attrs
                         THEN [acc EXCEPT !.error = KEY_NAME]
                      ELSE IF KEY_DATA \notin DOMAIN attrs
                         THEN [acc EXCEPT !.key_name = attrs[KEY_NAME],
                                          !.error = KEY_DATA]
                      ELSE [acc EXCEPT !.key_name = attrs[KEY_NAME],
                                       !.key_data = attrs[KEY_DATA]]
              ELSE acc
    IN  IF a1.error # None THEN a1
        ELSE IF SEC_GROUP \in mixin.related
             THEN [a1 EXCEPT !.sg_names = Append(@, mixin.term)]
        ELSE a1

RECURSIVE ScanMixins(_, _, _, _)
\* The for loop over entity.mixins from position k; it stops where a lookup
\* raised.
ScanMixins(mixins, attrs, k, acc) ==
    IF k > Len(mixins) \/ acc.error # None THEN acc
    ELSE ScanMixins(mixins, attrs, k + 1, ScanStep(acc, mixins[k], attrs))

create_vm(entity, fail) ==
    LET attrs == entity.attributes
        name == IF HOSTNAME \in DOMAIN attrs THEN attrs[HOSTNAME] ELSE None
        s == ScanMixins(entity.mixins, attrs, 1, ScanInit)
        byName == s.resource_template # NoMixin
        lookup == IF byName
                  THEN Call("instance_types.get_instance_type_by_name",
                            s.resource_template.term)
                  ELSE Call("instance_types.get_default_instance_type", None)
        inst_type == IF byName THEN s.resource_template.term ELSE DefaultFlavor
        r1 == Res(fail, 1)
        r2 == Res(fail, 2)
        create == Call("COMPUTE_API.create",
                       [instance_type |-> inst_type,
                        image_href |-> s.os_template.os_id,
                        min_count |-> 1, max_count |-> 1,
                        display_name |-> name, display_description |-> name,
                        key_name |-> s.key_name, key_data |-> s.key_data,
                        security_group |-> s.sg_names,
                        admin_password |-> "generated"])
    IN  IF s.error # None THEN Done(<<>>, KeyError(s.error))
        ELSE IF s.os_template = NoMixin
             THEN Done(<<>>, AttributeError("Please provide a valid OS Template."))
        ELSE IF r1 # "ok" THEN Done(<<lookup>>, ProviderError(r1))
        ELSE IF r2 # "ok" THEN Done(<<lookup, create>>, AttributeError(r2))
        ELSE Done(<<lookup, create>>, Ok(ProviderInstances[1]))

----------------------------------------------------------------------------
(* resize_vm *)

\* The handlers of resize_vm's try block.  An HTTPError raised by get_vm
\* inside the block matches neither and passes through.
ResizeHandler(out) ==
    IF out.kind = "ProviderError" /\ out.msg = "flavor_not_found"
        THEN AttributeError("Unable to locate requested flavor.")
    ELSE IF out.kind = "ProviderError" /\ out.msg = "invalid_state"
        THEN AttributeError("VM is in an invalid state: " \o out.msg)
    ELSE out

\* resize_vm up to the loop: the fetch, the flavor lookup and the resize call.
resize_start(uid, inst, flavor_name, fail) ==
    LET g  == get_vm(uid, inst, Res(fail, 1))
        r2 == Res(fail, 2)
        r3 == Res(fail, 3)
        lookup == Call("instance_types.get_instance_type_by_name", flavor_name)
        resize == Call("COMPUTE_API.resize", flavor_name)
    IN  IF g.kind # "ok" THEN Done(<<GetCall(uid)>>, g)
        ELSE IF r2 # "ok"
             THEN Done(<<GetCall(uid), lookup>>, ResizeHandler(ProviderError(r2)))
        ELSE IF r3 # "ok"
             THEN Done(<<GetCall(uid), lookup, resize>>,
                       ResizeHandler(ProviderError(r3)))
        ELSE Done(<<GetCall(uid), lookup, resize>>, Pending)

\* The loop condition with "and" for "or": at most 15 polls.
LoopCondBounded(rdy, n) == ~rdy /\ n < PollMin
\* The loop condition without the counter.
LoopCondNoMin(rdy, n) == ~rdy

\* "while not ready or i < 15"
LoopCond(rdy, n) == ~rdy \/ n < PollMin

\* i += 1, saturating at MaxPolls
NextI(n) == IF n < MaxPolls THEN n + 1 ELSE n

\* After the loop: the fetch and COMPUTE_API.confirm_resize.
resize_confirm(uid, inst, fail) ==
    LET g == get_vm(uid, inst, Res(fail, 1))
        r == Res(fail, 2)
    IN  IF g.kind # "ok" THEN Done(<<GetCall(uid)>>, ResizeHandler(g))
        ELSE Done(<<GetCall(uid), Call("COMPUTE_API.confirm_resize", uid)>>,
                  IF r = "ok" THEN Ok(None)
                  ELSE ResizeHandler(ProviderError(r)))

----------------------------------------------------------------------------
(* Actions *)

Req(op, args) == [op |-> op, args |-> args]

\* An operation served in one step.
Serve(op, args, d) ==
    /\ pc = "idle"
    /\ request' = Req(op, args)
    /\ calls' = d.calls
    /\ outcome' = d.out
    /\ UNCHANGED <<instance, pc, i, ready, state, firstReady>>

\* The provider's own progress: the instance changes state, appears, goes.
ProviderStep ==
    /\ \E s \in InstanceStates \ {instance} : instance' = s
    /\ UNCHANGED <<request, calls, outcome, pc, i, ready, state, firstReady>>

GetVm ==
    \E uid \in UIDs, fail \in FetchPlans(<<>>, instance) :
        Serve("get_vm", [uid |-> uid],
              Done(<<GetCall(uid)>>, get_vm(uid, instance, Res(fail, 1))))

GetVms ==
    \E fail \in FailPlans(<<"COMPUTE_API.get_all">>) :
        Serve("get_vms", [uid |-> None], get_vms(instance, fail))

GetOcciState ==
    \E uid \in UIDs, fail \in FetchPlans(<<>>, instance) :
        Serve("get_occi_state", [uid |-> uid], get_occi_state(uid, instance, fail))

DeleteVm ==
    \E uid \in UIDs, interval \in Intervals,
       fail \in FetchPlans(<<"COMPUTE_API.delete">>, instance) :
        Serve("delete_vm", [uid |-> uid, interval |-> interval],
              delete_vm(uid, instance, interval, fail))

SuspendVm ==
    \E uid \in UIDs, fail \in FetchPlans(<<"COMPUTE_API.pause">>, instance) :
        Serve("suspend_vm", [uid |-> uid], suspend_vm(uid, instance, fail))

StartVm ==
    \E uid \in UIDs, fail \in FetchPlans(<<"COMPUTE_API.resume">>, instance) :
        Serve("start_vm", [uid |-> uid], start_vm(uid, instance, fail))

StopVm ==
    \E uid \in UIDs, fail \in FetchPlans(<<"COMPUTE_API.suspend">>, instance) :
        Serve("stop_vm", [uid |-> uid], stop_vm(uid, instance, fail))

SnapshotVm ==
    \E uid \in UIDs, fail \in FetchPlans(<<"COMPUTE_API.snapshot">>, instance) :
        Serve("snapshot_vm", [uid |-> uid],
              snapshot_vm(uid, instance, "snap-1", fail))

RebuildVm ==
    \E uid \in UIDs, fail \in FetchPlans(<<"COMPUTE_API.rebuild">>, instance) :
        Serve("rebuild_vm", [uid |-> uid],
              rebuild_vm(uid, instance, "image-2", fail))

RestartVm ==
    \E uid \in UIDs, method \in Methods, same \in BOOLEAN,
       fail \in FetchPlans(<<"COMPUTE_API.reboot">>, instance) :
        /\ same => method = "cold"
        /\ Serve("restart_vm", [uid |-> uid, method |-> method, same |-> same],
                 restart_vm(uid, instance, method, same, fail))

SetPasswordForVm ==
    \E uid \in UIDs,
       fail \in FetchPlans(<<"COMPUTE_API.set_admin_password">>, instance) :
        Serve("set_password_for_vm", [uid |-> uid],
              set_password_for_vm(uid, instance, "secret", fail))

GetVnc ==
    \E uid \in UIDs, vnc_enabled \in BOOLEAN,
       fail \in FetchPlans(<<"COMPUTE_API.get_vnc_console">>, instance) :
        Serve("get_vnc", [uid |-> uid, vnc_enabled |-> vnc_enabled],
              get_vnc(uid, instance, vnc_enabled, fail))

AttachVolume ==
    \E uid \in UIDs,
       fail \in FetchPlans(<<"VOLUME_API.get", "COMPUTE_API.attach_volume">>, instance) :
        Serve("attach_volume", [uid |-> uid],
              attach_volume(uid, instance, "vol-1", "/dev/vdb", fail))

DetachVolume ==
    \E fail \in FailPlans(<<"COMPUTE_API.detach_volume">>) :
        Serve("detach_volume", [uid |-> None], detach_volume("vol-1", fail))

\* What the provider may answer to create_vm's two calls.
CreatePlans == FailPlans(<<"instance_types.lookup", "COMPUTE_API.create">>)

\* Create requests served among the other operations.
SampleEntities ==
    { e \in Entities :
        /\ Len(e.mixins) = 2
        /\ e.mixins[1].class \in {"OsTemplate", "Mixin"}
        /\ e.mixins[2].class = "ResourceTemplate"
        /\ HOSTNAME \in DOMAIN e.attributes
        /\ (KEY_NAME \in DOMAIN e.attributes) = (KEY_DATA \in DOMAIN e.attributes) }

CreateVm ==
    \E entity \in SampleEntities, fail \in CreatePlans :
        Serve("create_vm", [entity |-> entity, fail |-> fail],
              create_vm(entity, fail))

\* A create request given at the start, with what the provider will answer,
\* served once.
CreateVmPending ==
    /\ request.op = "create_vm"
    /\ outcome = Pending
    /\ LET d == create_vm(request.args.entity, request.args.fail) IN
        /\ calls' = d.calls
        /\ outcome' = d.out
    /\ UNCHANGED <<instance, request, pc, i, ready, state, firstReady>>

\* resize_vm, from its entry to the first test of the loop condition.
ResizeVm ==
    /\ pc = "idle"
    /\ \E uid \in UIDs,
       fail \in FetchPlans(<<"instance_types.lookup", "COMPUTE_API.resize">>, instance) :
        LET d == resize_start(uid, instance, "m1.large", fail) IN
        /\ request' = Req("resize_vm", [uid |-> uid])
        /\ calls' = d.calls
        /\ outcome' = d.out
        /\ pc' = IF d.out = Pending THEN "poll" ELSE "idle"
    /\ i' = 0
    /\ ready' = FALSE
    /\ state' = None
    /\ firstReady' = 0
    /\ UNCHANGED instance

\* One pass of the loop body and the next test of the loop condition.  The
\* locals are gone once resize_vm raises.
ResizePoll ==
    /\ pc = "poll"
    /\ \E fail \in FetchPlans(<<>>, instance) :
        LET g  == get_vm(request.args.uid, instance, Res(fail, 1))
            n  == NextI(i)
            rd == ready \/ g.value.vm_state = "resized"
        IN  /\ calls' = <<GetCall(request.args.uid)>>
            /\ IF g.kind # "ok"
               THEN /\ outcome' = ResizeHandler(g)
                    /\ pc' = "idle"
                    /\ i' = 0 /\ ready' = FALSE /\ state' = None /\ firstReady' = 0
               ELSE /\ outcome' = Pending
                    /\ i' = n
                    /\ state' = g.value.vm_state
                    /\ ready' = rd
                    /\ firstReady' = IF ~ready /\ rd THEN n ELSE firstReady
                    /\ pc' = IF LoopCond(rd, n) THEN "poll" ELSE "confirm"
    /\ UNCHANGED <<instance, request>>

\* The statements after the loop; resize_vm returns or raises.
ResizeConfirm ==
    /\ pc = "confirm"
    /\ \E fail \in FetchPlans(<<"COMPUTE_API.confirm_resize">>, instance) :
        LET d == resize_confirm(request.args.uid, instance, fail) IN
        /\ calls' = d.calls
        /\ outcome' = d.out
    /\ pc' = "idle"
    /\ i' = 0 /\ ready' = FALSE /\ state' = None /\ firstReady' = 0
    /\ UNCHANGED <<instance, request>>

----------------------------------------------------------------------------
(* Specifications *)

NoRequest == Req("none", [uid |-> None])

Init ==
    /\ instance \in InstanceStates
    /\ request = NoRequest
    /\ calls = <<>>
    /\ outcome = Ok(None)
    /\ pc = "idle"
    /\ i = 0
    /\ ready = FALSE
    /\ state = None
    /\ firstReady = 0

Next ==
    \/ ProviderStep
    \/ GetVm
    \/ GetVms
    \/ GetOcciState
    \/ CreateVm
    \/ RebuildVm
    \/ ResizeVm
    \/ ResizePoll
    \/ ResizeConfirm
    \/ DeleteVm
    \/ SuspendVm
    \/ StartVm
    \/ StopVm
    \/ SnapshotVm
    \/ RestartVm
    \/ SetPasswordForVm
    \/ GetVnc
    \/ AttachVolume
    \/ DetachVolume

Spec == Init /\ [][Next]_vars

\* create_vm on every entity within the bounds.
InitCreate ==
    /\ instance = Absent
    /\ request \in {Req("create_vm", [entity |-> e, fail |-> f]) :
                      e \in Entities, f \in CreatePlans}
    /\ calls = <<>>
    /\ outcome = Pending
    /\ pc = "idle"
    /\ i = 0
    /\ ready = FALSE
    /\ state = None
    /\ firstReady = 0

NextCreate == CreateVmPending

SpecCreate == InitCreate /\ [][NextCreate]_vars

\* resize_vm against a provider that changes under it.  The thread that runs
\* resize_vm is never suspended for good: time.sleep(1) returns.
NextResize ==
    \/ ProviderStep
    \/ ResizeVm
    \/ ResizePoll
    \/ ResizeConfirm

SpecResize ==
    /\ Init
    /\ [][NextResize]_vars
    /\ WF_vars(ResizePoll)
    /\ WF_vars(ResizeConfirm)

----------------------------------------------------------------------------
(* Properties *)

Max(S) == CHOOSE x \in S : \A y \in S : y <= x
Served(op) == request.op = op /\ outcome.kind # "pending"
\* The operation's fetch of the instance raised: nothing else was called.
FetchFailed ==
    /\ Len(calls) = 1
    /\ calls[1].fn = "COMPUTE_API.get"
    /\ outcome.kind \in {"HTTPError", "ProviderError"}
NCalls(fn) == Cardinality(CallsOf(calls, fn))

\* A step in which get_occi_state answers from the instance as it is now.
DeriveStep ==
    /\ request'.op = "get_occi_state"
    /\ outcome'.kind = "ok"
    /\ instance' = instance

\* C1: get_occi_state follows the state table for every vm_state of the
\* table: active gives ("active", {stop, suspend, restart}); paused,
\* suspended and stopped give ("inactive", {start}); building, rescued, error
\* and deleted give ("inactive", {}).  Every answer is the table's row for the
\* vm_state the instance has at the time of the call, whatever was asked
\* before.
C1_StateTable ==
    [][DeriveStep =>
        LET v == instance.vm_state
            got == outcome'.value
        IN  /\ v = "active" =>
                /\ got.state = "active"
                /\ Range(got.actions) = {"stop", "suspend", "restart"}
                /\ Len(got.actions) = 3
            /\ v \in {"paused", "suspended", "stopped"} =>
                /\ got.state = "inactive"
                /\ got.actions = <<"start">>
            /\ v \in {"building", "rescued", "error", "deleted"} =>
                /\ got.state = "inactive"
                /\ got.actions = <<>>]_vars

C1_Witness ==
    /\ Served("get_occi_state")
    /\ outcome.kind = "ok"
    /\ instance.exists /\ instance.vm_state = "stopped"
    /\ outcome.value.state = "inactive"
    /\ outcome.value.actions = <<"start">>

\* C2: whenever the instance's task-state is "image snapshotting" at the time
\* of the query, get_occi_state answers ("inactive", {}), whatever the
\* vm_state.
C2_SnapshotOverride ==
    [][(DeriveStep /\ instance.task_state = IMAGE_SNAPSHOT) =>
        /\ outcome'.value.state = "inactive"
        /\ outcome'.value.actions = <<>>]_vars

\* Entities of create requests
HasClass(mixins, class) == \E k \in DOMAIN mixins : mixins[k].class = class
LastOfClass(mixins, class) ==
    mixins[Max({k \in DOMAIN mixins : mixins[k].class = class})]
IsSecGroup(m) == SEC_GROUP \in m.related
SecGroupNames(mixins) ==
    LET sgs == SelectSeq(mixins, IsSecGroup) IN [k \in DOMAIN sgs |-> sgs[k].term]
ExpectedFlavor(mixins) ==
    IF HasClass(mixins, "ResourceTemplate")
    THEN LastOfClass(mixins, "ResourceTemplate").term ELSE DefaultFlavor
ExpectedName(attrs) == IF HOSTNAME \in DOMAIN attrs THEN attrs[HOSTNAME] ELSE None
\* The instance-creation calls made, and whether there is exactly one, with
\* the arguments the entity calls for.
CreateCalls == CallsOf(calls, "COMPUTE_API.create")
OneCreateCallFor(entity) ==
    /\ Cardinality(CreateCalls) = 1
    /\ \A k \in CreateCalls :
        LET a == calls[k].arg IN
        /\ a.image_href = LastOfClass(entity.mixins, "OsTemplate").os_id
        /\ a.instance_type = ExpectedFlavor(entity.mixins)
        /\ a.display_name = ExpectedName(entity.attributes)
        /\ a.display_description = ExpectedName(entity.attributes)
        /\ a.min_count = 1 /\ a.max_count = 1
        /\ a.security_group = SecGroupNames(entity.mixins)

\* C3: create on an entity without an OsTemplate mixin, whatever else it
\* holds, fails with the validation error (AttributeError) and has made no
\* provider call.
C3_NoOsTemplateFails ==
    (Served("create_vm") /\ ~HasClass(request.args.entity.mixins, "OsTemplate"))
        => (outcome.kind = "AttributeError" /\ Len(calls) = 0)

\* C8: create on any entity with an OsTemplate makes exactly one
\* instance-creation call, with the image of the last OsTemplate, the flavor
\* of the last ResourceTemplate (or the default), the hostname as name and
\* description, counts of 1 and the security-group names in order of
\* appearance, duplicates kept; what it returns is the first handle of the
\* provider's result.  (Stated here for the requests during which no
\* provider call raises, where it fails already.)
C8_CreateArguments ==
    (/\ Served("create_vm")
     /\ HasClass(request.args.entity.mixins, "OsTemplate")
     /\ request.args.fail = NoFail)
        => /\ OneCreateCallFor(request.args.entity)
           /\ outcome = Ok(ProviderInstances[1])

\* C4: restart with "graceful" or "warm" makes exactly one soft reboot
\* request and with "cold" exactly one hard reboot request (the instance
\* being there); with any other method it fails with the validation error
\* without any provider call, the fetch of the instance included.
C4_RestartMethods ==
    Served("restart_vm") =>
        LET m == request.args.method
            reboots == CallsOf(calls, "COMPUTE_API.reboot")
            one(type) == /\ Cardinality(reboots) = 1
                         /\ \A k \in reboots : calls[k].arg = type
        IN  /\ (m \in {"graceful", "warm"} /\ ~FetchFailed) => one("SOFT")
            /\ (m = "cold" /\ ~FetchFailed) => one("HARD")
            /\ m \notin {"graceful", "warm", "cold"} =>
                 (outcome.kind = "AttributeError" /\ Len(calls) = 0)

\* C5: delete of an instance that is there calls soft-delete once and
\* delete never when the retention interval is positive, delete once and
\* soft-delete never for every other interval (0, unset, negative); when the
\* fetch fails it calls neither.
Positive(v) == ~v.none /\ v.n > 0
C5_DeleteChoice ==
    Served("delete_vm") =>
        IF FetchFailed
            THEN NCalls("COMPUTE_API.soft_delete") + NCalls("COMPUTE_API.delete") = 0
        ELSE IF Positive(request.args.interval)
            THEN NCalls("COMPUTE_API.soft_delete") = 1 /\ NCalls("COMPUTE_API.delete") = 0
        ELSE NCalls("COMPUTE_API.soft_delete") = 0 /\ NCalls("COMPUTE_API.delete") = 1

\* C6: whatever a provider call raises, none of create, rebuild, resize,
\* delete, suspend, start, stop, snapshot, restart, attach_volume,
\* detach_volume, get_vnc, get_vm and get_occi_state hands a provider error
\* to its caller: each ends in success, AttributeError or HTTPError.
BoundaryOps == {"create_vm", "rebuild_vm", "resize_vm", "delete_vm", "suspend_vm",
                "start_vm", "stop_vm", "snapshot_vm", "restart_vm", "attach_volume",
                "detach_volume", "get_vnc", "get_vm", "get_occi_state"}
C6_NoProviderErrorCrosses ==
    (request.op \in BoundaryOps /\ outcome.kind # "pending")
        => outcome.kind # "ProviderError"

\* C7: set_password on an instance that is there returns successfully
\* whatever the provider's set-admin-password call raises.
C7_SetPasswordNeverFails ==
    (Served("set_password_for_vm") /\ ~FetchFailed) => outcome.kind = "ok"

\* The provider shows the instance as resized.
ProviderResized == instance.exists /\ instance.vm_state = "resized"
\* resize_vm has raised.
ResizeRaised == pc = "idle" /\ outcome.kind \notin {"ok", "pending"}

\* C9: resize_vm calls confirm-resize, at most once, only after a poll has
\* seen vm_state = resized; the loop is left only with ready set or by an
\* error of the fetch, never by the counter, so while no poll sees resized
\* it goes on polling and neither confirms nor returns; and if the provider
\* comes to show resized for good, the loop ends (in the confirm step unless
\* a fetch raised) and resize_vm terminates.
C9_ResizePollOrdering ==
    /\ [](pc = "confirm" => ready)
    /\ [][(pc = "poll" /\ pc' # "poll") =>
            \/ pc' = "confirm" /\ ready'
            \/ ResizeRaised']_vars
    /\ [][(pc = "poll" /\ ~ready') => (pc' = "poll" \/ ResizeRaised')]_vars
    /\ [][(pc # "idle" /\ pc' = "idle"
             /\ CallsOf(calls', "COMPUTE_API.confirm_resize") # {}) =>
            /\ pc = "confirm" /\ ready
            /\ Cardinality(CallsOf(calls', "COMPUTE_API.confirm_resize")) = 1]_vars
    /\ [][(pc # "idle" /\ pc' = "idle" /\ outcome'.kind = "ok") =>
            CallsOf(calls', "COMPUTE_API.confirm_resize") # {}]_vars
    /\ (<>[]ProviderResized) => [](pc = "poll" => <>(pc # "poll"))
    /\ [](pc = "confirm" => <>(pc = "idle"))

\* The loop went past 15 polls because none had seen resized, and left at
\* the first that did.
C9_Witness ==
    /\ pc = "confirm"
    /\ ready
    /\ firstReady = PollMin + 1
    /\ i = PollMin + 1

\* C10: confirm-resize is reached only after at least 15 polls, even when
\* the first poll saw resized; once a poll has seen resized, ready stays set
\* whatever later polls see, and the loop is left after poll
\* max(15, first poll that saw resized).
C10_PollLowerBoundAndLatch ==
    /\ [](pc = "confirm" =>
            /\ ready
            /\ i >= PollMin
            /\ firstReady >= 1
            /\ i = Max({PollMin, firstReady}))
    /\ [][(pc = "poll" /\ ready /\ pc' # "idle") =>
            (ready' /\ firstReady' = firstReady)]_vars

\* The first poll saw resized, the fifteenth did not, and the loop is left.
C10_Witness ==
    /\ pc = "confirm"
    /\ firstReady = 1
    /\ i = PollMin
    /\ state # "resized"

=============================================================================
